---- MODULE Spec2Model ----
(***************************************************************************)
(* Model of the retrieval-augmented agent (src/src/agents.rs) and of the   *)
(* CSV file loader (src/src/files.rs).                                     *)
(*                                                                         *)
(* Text is a sequence of one-character strings.  The three remote          *)
(* services (embedding, vector index, chat completion) are the             *)
(* environment: every reply they can give is an input of the action that   *)
(* makes the call.                                                         *)
(***************************************************************************)
EXTENDS Integers, Sequences, FiniteSets, TLC

VARIABLES
    index,    \* the Qdrant collection: point id -> [vector, payload]
    uuids,    \* number of ids Uuid::new_v4 has handed out
    last,     \* the last MyAgent call: arguments, service replies, outcome
    read,     \* what std::fs::read_to_string returned to the last File::new
    loaded    \* the Result of the last File::new

vars == <<index, uuids, last, read, loaded>>

---------------------------------------------------------------------------
(* Bounds *)

\* longest text handed to File::new
MaxLen == 5
\* most points Uuid::new_v4 is asked to name in one behaviour
MaxPoints == 4
\* most choices a chat completion reply carries
MaxChoices == 2

---------------------------------------------------------------------------
(* Result, Option and panics *)

Ok(v) == [kind |-> "Ok", value |-> v]
Err(e) == [kind |-> "Err", value |-> e]
\* unwrap() on None and an index out of range unwind the calling task: the
\* caller gets no Result value at all
Panic == [kind |-> "Panic", value |-> "panicked"]
Some(v) == [kind |-> "Some", value |-> v]
None == [kind |-> "None", value |-> "none"]

LF == "\n"
CR == "\r"

---------------------------------------------------------------------------
(* src/src/files.rs *)

RECURSIVE split_inclusive(_)
\* str::split_inclusive('\n'): every piece but possibly the last ends in LF
split_inclusive(s) ==
    IF s = <<>> THEN <<>>
    ELSE LET nl == {i \in 1..Len(s) : s[i] = LF}
         IN IF nl = {} THEN <<s>>
            ELSE LET n == CHOOSE i \in nl : \A j \in nl : i <= j
                 IN <<SubSeq(s, 1, n)>> \o split_inclusive(SubSeq(s, n + 1, Len(s)))

strip_suffix(s, c) ==
    IF s # <<>> /\ s[Len(s)] = c THEN Some(SubSeq(s, 1, Len(s) - 1)) ELSE None

\* the closure str::lines maps over the pieces: drop one LF, then one CR
strip_line_ending(piece) ==
    LET a == strip_suffix(piece, LF)
    IN IF a.kind = "None" THEN piece
       ELSE LET b == strip_suffix(a.value, CR)
            IN IF b.kind = "None" THEN a.value ELSE b.value

RECURSIVE split_terminator(_)
\* the mutant of lines: str::split('\n') keeps the empty piece after a final LF
\* and leaves CR in place
split_terminator(s) ==
    LET nl == {i \in 1..Len(s) : s[i] = LF}
    IN IF nl = {} THEN <<s>>
       ELSE LET n == CHOOSE i \in nl : \A j \in nl : i <= j
            IN <<SubSeq(s, 1, n - 1)>> \o split_terminator(SubSeq(s, n + 1, Len(s)))

\* contents.lines().map(|x| x.to_owned()).collect()
lines(contents) ==
    LET pieces == split_inclusive(contents)
    IN [i \in 1..Len(pieces) |-> strip_line_ending(pieces[i])]

\* File::new; fs is the Result of read_to_string(&path)
File_new(path, fs) ==
    IF fs.kind = "Err" THEN Err(fs.value)
    ELSE Ok([path |-> path, contents |-> fs.value, rows |-> lines(fs.value)])

---------------------------------------------------------------------------
(* Inputs of File::new *)

Chars == {"a", LF, CR}

RECURSIVE TextsOfLen(_)
TextsOfLen(n) ==
    IF n = 0 THEN {<<>>}
    ELSE {Append(t, c) : t \in TextsOfLen(n - 1), c \in Chars}

Texts == UNION {TextsOfLen(n) : n \in 0..MaxLen}

Paths == {"a.csv", "b.csv"}

IoError == "No such file or directory"

ReadReplies == {Err(IoError)} \cup {Ok(t) : t \in Texts}

---------------------------------------------------------------------------
(* src/src/agents.rs: the services MyAgent talks to *)

\* the anyhow! messages of agents.rs
NoRowsToEmbed == "There's no rows to embed!"
NoResultsMatched == "There were no results that matched :("
\* the errors `?` passes on from the three clients
EmbeddingsError == "embeddings request failed"
SearchError == "search_points failed"
UpsertError == "upsert_points failed"
ChatError == "chat completion failed"

\* the vector the embedding model gives a text: equal texts, equal vectors
Embedding(text) == [of |-> text]

\* Embeddings::create on a list of inputs: an error, or a list of vectors in
\* input order; how many vectors come back is the service's choice
EmbeddingsCreate(input) ==
    {Err(EmbeddingsError)}
        \cup {Ok([i \in 1..n |-> Embedding(input[i])]) : n \in 0..Len(input)}

\* QdrantClient::search_points with limit 1 and the payload selector enabled:
\* an error, or the nearest point (a point with the same vector when there is
\* one, otherwise whichever point the metric prefers); no point when the
\* collection is empty
SearchPoints(idx, embReply) ==
    IF embReply.kind = "Ok" /\ embReply.value # <<>>
    THEN LET vector == Head(embReply.value)
             exact == {id \in DOMAIN idx : idx[id].vector = vector}
             nearest == IF exact # {} THEN exact ELSE DOMAIN idx
         IN {Err(SearchError)}
                \cup (IF nearest = {} THEN {Ok(<<>>)}
                      ELSE {Ok(<<[id |-> id, payload |-> idx[id].payload]>>) : id \in nearest})
    ELSE {Err(SearchError)}

\* QdrantClient::upsert_points of one point: a point with the same id is replaced
UpsertPoints(idx, point) ==
    [id \in DOMAIN idx \cup {point.id} |->
        IF id = point.id THEN [vector |-> point.vector, payload |-> point.payload]
        ELSE idx[id]]

\* what a chat completion choice can carry as message.content
Contents == {None, Some(<<"y">>)}

RECURSIVE ChoicesOfLen(_)
ChoicesOfLen(n) ==
    IF n = 0 THEN {<<>>}
    ELSE {Append(cs, c) : cs \in ChoicesOfLen(n - 1), c \in Contents}

\* Chat::create: an error, or a response with any number of choices
ChatCreate == {Err(ChatError)} \cup {Ok(cs) : cs \in UNION {ChoicesOfLen(n) : n \in 0..MaxChoices}}

\* Payload::get
Get(payload, key) == IF key \in DOMAIN payload THEN Some(payload[key]) ELSE None

\* Display of a qdrant string Value: the text between double quotes
to_string(text) == <<"\"">> \o text \o <<"\"">>

\* into_iter().next() and first()
First(seq) == IF seq = <<>> THEN None ELSE Some(Head(seq))

---------------------------------------------------------------------------
(* MyAgent::search_document and MyAgent::prompt *)

\* the mutant of MatchResult: no result is an empty context
MatchResult_EmptyContext(result) ==
    IF result.kind = "None" THEN Ok(<<>>)
    ELSE LET contents == Get(result.value.payload, "contents")
         IN IF contents.kind = "None" THEN Panic ELSE Ok(to_string(contents.value))

\* match result { Some(res) => Ok(res.payload.get("contents").unwrap().to_string()),
\*                None => Err(..) }
MatchResult(result) ==
    IF result.kind = "None" THEN Err(NoResultsMatched)
    ELSE LET contents == Get(result.value.payload, "contents")
         IN IF contents.kind = "None" THEN Panic ELSE Ok(to_string(contents.value))

search_document(prompt, embReply, searchReply) ==
    IF embReply.kind = "Err"
    THEN [result |-> Err(embReply.value), embedCalls |-> 1, searchCalls |-> 0, hit |-> None]
    ELSE IF First(embReply.value).kind = "None"
    THEN [result |-> Panic, embedCalls |-> 1, searchCalls |-> 0, hit |-> None]
    ELSE IF searchReply.kind = "Err"
    THEN [result |-> Err(searchReply.value), embedCalls |-> 1, searchCalls |-> 1, hit |-> None]
    ELSE LET result == First(searchReply.value)
         IN [result |-> MatchResult(result), embedCalls |-> 1, searchCalls |-> 1,
             hit |-> result]

\* format!("{prompt}\n Provided context:\n {}\n", context)
FormatInput(prompt, context) ==
    prompt \o <<LF, "Provided context:", LF>> \o context \o <<LF>>

\* .map(|res| res.choices[0].message.content.clone().unwrap())?
FirstChoice(chatReply) ==
    IF chatReply.kind = "Err" THEN Err(chatReply.value)
    ELSE IF chatReply.value = <<>> THEN Panic
    ELSE IF chatReply.value[1].kind = "None" THEN Panic
    ELSE Ok(chatReply.value[1].value)

prompt(query, embReply, searchReply, chatReply) ==
    LET context == search_document(query, embReply, searchReply)
    IN IF context.result.kind # "Ok"
       THEN [result |-> context.result, embedCalls |-> context.embedCalls,
             searchCalls |-> context.searchCalls, chatCalls |-> 0, upsertCalls |-> 0,
             hit |-> context.hit, context |-> None, input |-> None]
       ELSE [result |-> FirstChoice(chatReply), embedCalls |-> context.embedCalls,
             searchCalls |-> context.searchCalls, chatCalls |-> 1, upsertCalls |-> 0,
             hit |-> context.hit, context |-> Some(context.result.value),
             input |-> Some(FormatInput(query, context.result.value))]

---------------------------------------------------------------------------
(* MyAgent::embed_document *)

\* the mutant of NewV4: the same id every time
NewV4_Fixed(n) == 1

\* uuid::Uuid::new_v4().to_string(), the n+1st id handed out: never one handed
\* out before, nor the id of a point the collection started with
NewV4(n) == n + 1

\* the mutant of PayloadOf: the chunk list left out
PayloadOf_NoRows(file) == [id |-> file.path, content |-> file.contents]

\* serde_json::json!({"id": file.path, "content": file.contents, "rows": file.rows})
PayloadOf(file) == [id |-> file.path, content |-> file.contents, rows |-> file.rows]

RECURSIVE UpsertLoop_SkipFailed(_, _, _, _, _, _, _)
\* the mutant of UpsertLoop: a failed upsert is skipped and the loop goes on
UpsertLoop_SkipFailed(idx, n, file, data, acks, i, written) ==
    IF i > Len(data)
    THEN [result |-> Ok("unit"), index |-> idx, uuids |-> n, embedCalls |-> 1,
          upsertCalls |-> i - 1, written |-> written]
    ELSE LET point == [id |-> NewV4(n), vector |-> data[i], payload |-> PayloadOf(file)]
         IN IF acks[i]
            THEN UpsertLoop_SkipFailed(UpsertPoints(idx, point), n + 1, file, data, acks,
                                       i + 1, Append(written, point.id))
            ELSE UpsertLoop_SkipFailed(idx, n + 1, file, data, acks, i + 1, written)

RECURSIVE UpsertLoop(_, _, _, _, _, _, _)
\* for embedding in embedding_result.data { ... upsert_points(..).await?; } Ok(())
\* acks[i] tells whether the i-th upsert call succeeds
UpsertLoop(idx, n, file, data, acks, i, written) ==
    IF i > Len(data)
    THEN [result |-> Ok("unit"), index |-> idx, uuids |-> n, embedCalls |-> 1,
          upsertCalls |-> i - 1, written |-> written]
    ELSE LET point == [id |-> NewV4(n), vector |-> data[i], payload |-> PayloadOf(file)]
         IN IF acks[i]
            THEN UpsertLoop(UpsertPoints(idx, point), n + 1, file, data, acks,
                            i + 1, Append(written, point.id))
            ELSE [result |-> Err(UpsertError), index |-> idx, uuids |-> n + 1,
                  embedCalls |-> 1, upsertCalls |-> i, written |-> written]

\* embed_document after its guard: the embeddings request, then the loop
EmbedRows(idx, n, file, embReply, acks) ==
    IF embReply.kind = "Err"
    THEN [result |-> Err(embReply.value), index |-> idx, uuids |-> n, embedCalls |-> 1,
          upsertCalls |-> 0, written |-> <<>>]
    ELSE UpsertLoop(idx, n, file, embReply.value, acks, 1, <<>>)

\* the mutant of embed_document: the guard on file.rows left out
embed_document_NoGuard(idx, n, file, embReply, acks) ==
    EmbedRows(idx, n, file, embReply, acks)

embed_document(idx, n, file, embReply, acks) ==
    IF file.rows = <<>>
    THEN [result |-> Err(NoRowsToEmbed), index |-> idx, uuids |-> n, embedCalls |-> 0,
          upsertCalls |-> 0, written |-> <<>>]
    ELSE EmbedRows(idx, n, file, embReply, acks)

---------------------------------------------------------------------------
(* Inputs of MyAgent and the initial collection *)

\* the files handed to embed_document are the ones File::new builds
Sources == {<<"a.csv", <<"a", LF, "b", LF>>>>, <<"b.csv", <<"b">>>>, <<"b.csv", <<>>>>}
Files == {File_new(src[1], Ok(src[2])).value : src \in Sources}

Queries == {<<"a">>, <<"b">>, <<"c">>}

\* the collection exists before MyAgent::new gets its client: it is empty, or it
\* already holds a point whose payload has the "contents" field search_document reads
SeedId == 0
NoPoints == [id \in {} |-> None]
SeedPoints ==
    [id \in {SeedId} |-> [vector |-> Embedding(<<"c">>), payload |-> [contents |-> <<"c">>]]]

NoCall == [op |-> "none"]

Init ==
    /\ index \in {NoPoints, SeedPoints}
    /\ uuids = 0
    /\ last = NoCall
    /\ read = None
    /\ loaded = None

---------------------------------------------------------------------------
(* Actions *)

\* one call of MyAgent::embed_document
EmbedDocument(file) ==
    \E embReply \in EmbeddingsCreate(file.rows) :
        LET n == IF embReply.kind = "Ok" THEN Len(embReply.value) ELSE 0
        IN \E acks \in [1..n -> BOOLEAN] :
            LET r == embed_document(index, uuids, file, embReply, acks)
            IN /\ r.uuids <= MaxPoints
               /\ index' = r.index
               /\ uuids' = r.uuids
               /\ last' = [op |-> "embed_document", file |-> file,
                           embReply |-> IF r.embedCalls = 0 THEN None ELSE Some(embReply),
                           acks |-> SubSeq(acks, 1, r.upsertCalls), result |-> r.result,
                           embedCalls |-> r.embedCalls, upsertCalls |-> r.upsertCalls,
                           written |-> r.written]
               /\ UNCHANGED <<read, loaded>>

\* the replies the chat completion can give to a prompt call: it replies only
\* when search_document has returned a context
ChatReplies(query, embReply, searchReply) ==
    IF search_document(query, embReply, searchReply).result.kind = "Ok"
    THEN ChatCreate ELSE {Err(ChatError)}

\* the mutant of Prompt: the answered query is stored in the collection
Prompt_StoresQuery(query) ==
    \E embReply \in EmbeddingsCreate(<<query>>) :
        \E searchReply \in SearchPoints(index, embReply) :
            \E chatReply \in ChatReplies(query, embReply, searchReply) :
                LET r == prompt(query, embReply, searchReply, chatReply)
                IN /\ last' = [op |-> "prompt", query |-> query,
                               embReply |-> embReply,
                               searchReply |-> IF r.searchCalls = 0 THEN None ELSE Some(searchReply),
                               chatReply |-> IF r.chatCalls = 0 THEN None ELSE Some(chatReply),
                               result |-> r.result, hit |-> r.hit,
                               context |-> r.context, input |-> r.input,
                               embedCalls |-> r.embedCalls, searchCalls |-> r.searchCalls,
                               upsertCalls |-> r.upsertCalls, chatCalls |-> r.chatCalls]
                   /\ index' = IF r.result.kind = "Ok"
                               THEN UpsertPoints(index, [id |-> SeedId, vector |-> Embedding(query),
                                                         payload |-> [contents |-> r.result.value]])
                               ELSE index
                   /\ UNCHANGED <<uuids, read, loaded>>

\* one call of MyAgent::prompt
Prompt(query) ==
    \E embReply \in EmbeddingsCreate(<<query>>) :
        \E searchReply \in SearchPoints(index, embReply) :
            \E chatReply \in ChatReplies(query, embReply, searchReply) :
                LET r == prompt(query, embReply, searchReply, chatReply)
                IN /\ last' = [op |-> "prompt", query |-> query,
                               embReply |-> embReply,
                               searchReply |-> IF r.searchCalls = 0 THEN None ELSE Some(searchReply),
                               chatReply |-> IF r.chatCalls = 0 THEN None ELSE Some(chatReply),
                               result |-> r.result, hit |-> r.hit,
                               context |-> r.context, input |-> r.input,
                               embedCalls |-> r.embedCalls, searchCalls |-> r.searchCalls,
                               upsertCalls |-> r.upsertCalls, chatCalls |-> r.chatCalls]
                   /\ UNCHANGED <<index, uuids, read, loaded>>

\* one call of File::new
Load(path, fs) ==
    /\ read' = Some(fs)
    /\ loaded' = Some(File_new(path, fs))
    /\ UNCHANGED <<index, uuids, last>>

Next ==
    \/ \E file \in Files : EmbedDocument(file)
    \/ \E query \in Queries : Prompt(query)

Spec == Init /\ [][Next]_vars

NextLoad == \E path \in Paths, fs \in ReadReplies : Load(path, fs)

SpecLoad == Init /\ [][NextLoad]_vars

---------------------------------------------------------------------------
(* Helpers of the properties *)

Range(seq) == {seq[i] : i \in 1..Len(seq)}

\* a occurs in b as a run of consecutive elements
IsInfix(a, b) == \E i \in 0..(Len(b) - Len(a)) : SubSeq(b, i + 1, i + Len(a)) = a

\* every point of idx is in idx2, unchanged
Kept(idx, idx2) == \A id \in DOMAIN idx : id \in DOMAIN idx2 /\ idx2[id] = idx[id]

\* the vectors the embedding service returned to the last embed_document call
LastData == IF last.embReply.kind = "Some" /\ last.embReply.value.kind = "Ok"
            THEN last.embReply.value.value ELSE <<>>

---------------------------------------------------------------------------
(* Properties of MyAgent::embed_document *)

\* C1: a successful embed_document of a file with N rows, the embedding service
\* having returned N vectors, adds exactly N points under N fresh ids and leaves
\* every point stored before in place, unchanged.
C1_IngestAddsFreshPoints ==
    [][(/\ last'.op = "embed_document"
        /\ last'.result.kind = "Ok"
        /\ Len(last'.embReply.value.value) = Len(last'.file.rows))
       => LET N == Len(last'.file.rows)
          IN /\ Cardinality(DOMAIN index') = Cardinality(DOMAIN index) + N
             /\ Kept(index, index')
             /\ Len(last'.written) = N
             /\ Cardinality(Range(last'.written)) = N
             /\ Range(last'.written) \cap DOMAIN index = {}
             /\ DOMAIN index' = DOMAIN index \cup Range(last'.written)]_vars

\* the same file embedded twice: 2N points carry its payload
C1_Witness ==
    /\ last.op = "embed_document"
    /\ last.result.kind = "Ok"
    /\ Len(last.file.rows) = 2
    /\ Len(last.written) = 2
    /\ Cardinality({id \in DOMAIN index : /\ "rows" \in DOMAIN index[id].payload
                                          /\ index[id].payload.id = last.file.path
                                          /\ index[id].payload.rows = last.file.rows}) = 4

\* C2: embed_document of a file without rows returns the "no rows" error, calls
\* neither the embedding service nor the index, and leaves the index as it was.
C2_EmptyInputNoCalls ==
    [][(last'.op = "embed_document" /\ last'.file.rows = <<>>)
       => /\ last'.result = Err(NoRowsToEmbed)
          /\ last'.embedCalls = 0
          /\ last'.upsertCalls = 0
          /\ last'.written = <<>>
          /\ index' = index]_vars

C2_Witness ==
    /\ last.op = "embed_document"
    /\ last.file.rows = <<>>
    /\ last.result = Err(NoRowsToEmbed)
    /\ Cardinality(DOMAIN index) >= 2

\* C3: when the k-th upsert of an embed_document call fails, the call returns
\* that error, the k-1 points upserted before it are in the index (with the
\* points stored earlier), and no further upsert is issued.
C3_UpsertFailureHalts ==
    [][(/\ last'.op = "embed_document"
        /\ \E i \in 1..Len(last'.acks) : ~last'.acks[i])
       => LET failed == {i \in 1..Len(last'.acks) : ~last'.acks[i]}
              k == CHOOSE i \in failed : \A j \in failed : i <= j
              data == last'.embReply.value.value
          IN /\ last'.result = Err(UpsertError)
             /\ last'.upsertCalls = k
             /\ Len(last'.written) = k - 1
             /\ Cardinality(Range(last'.written)) = k - 1
             /\ Range(last'.written) \cap DOMAIN index = {}
             /\ DOMAIN index' = DOMAIN index \cup Range(last'.written)
             /\ Kept(index, index')
             /\ \A i \in 1..(k - 1) : index'[last'.written[i]].vector = data[i]]_vars

\* the second of two upserts failed: the first point stays stored
C3_Witness ==
    /\ last.op = "embed_document"
    /\ last.result = Err(UpsertError)
    /\ last.acks = <<TRUE, FALSE>>
    /\ Len(last.written) = 1
    /\ last.written[1] \in DOMAIN index

\* C9: every point embed_document writes carries the file's path, its contents
\* and all its rows as payload, the same for all points of the call, and the
\* i-th point written carries the i-th vector the embedding service returned.
C9_PayloadAndVector ==
    last.op = "embed_document"
    => \A i \in 1..Len(last.written) :
          LET point == index[last.written[i]]
          IN /\ {"id", "content", "rows"} \subseteq DOMAIN point.payload
             /\ point.payload.id = last.file.path
             /\ point.payload.content = last.file.contents
             /\ point.payload.rows = last.file.rows
             /\ point.payload = index[last.written[1]].payload
             /\ point.vector = LastData[i]

C9_Witness ==
    /\ last.op = "embed_document"
    /\ Len(last.written) = 2
    /\ index[last.written[1]].vector # index[last.written[2]].vector
    /\ index[last.written[2]].payload.rows = <<<<"a">>, <<"b">>>>

---------------------------------------------------------------------------
(* Properties of MyAgent::prompt *)

\* the point the search of the last prompt call returned, if any
LastHit == last.op = "prompt" /\ last.hit.kind = "Some"

\* C4: a prompt equal to a row of an embedded file, answered by the point
\* embed_document stored for that row, gets that point's content as context
\* and sends it to the chat completion.
C4_RoundTrip ==
    (/\ LastHit
     /\ last.hit.value.id # SeedId
     /\ index[last.hit.value.id].vector = Embedding(last.query)
     /\ \E i \in 1..Len(last.hit.value.payload.rows) :
            last.hit.value.payload.rows[i] = last.query)
    => /\ last.context.kind = "Some"
       /\ IsInfix(last.hit.value.payload.content, last.context.value)
       /\ last.chatCalls = 1
       /\ IsInfix(last.context.value, last.input.value)

\* C5: when the search returns no point, prompt returns the "no results" error
\* and does not call the chat completion.
C5_NoResults ==
    (last.op = "prompt" /\ last.searchReply = Some(Ok(<<>>)))
    => /\ last.result = Err(NoResultsMatched)
       /\ last.chatCalls = 0

C5_Witness ==
    /\ last.op = "prompt"
    /\ last.searchReply = Some(Ok(<<>>))
    /\ last.result = Err(NoResultsMatched)
    /\ index = NoPoints

\* C6: prompt issues no upsert and leaves the index as it was, whatever it
\* returns; a step that changes the index is an embed_document call, and it
\* keeps every point stored before.
C6_PromptReadOnly ==
    [][/\ last'.op = "prompt" => (index' = index /\ last'.upsertCalls = 0)
       /\ index' # index => (last'.op = "embed_document" /\ Kept(index, index'))]_vars

\* a prompt answered from a collection embed_document has added to
C6_Witness ==
    /\ last.op = "prompt"
    /\ last.result.kind = "Ok"
    /\ last.chatCalls = 1
    /\ Cardinality(DOMAIN index) >= 3

\* C7: when the point the search returns has no "contents" field, prompt
\* returns an error and does not call the chat completion.
C7_MalformedPayloadIsError ==
    (LastHit /\ "contents" \notin DOMAIN last.hit.value.payload)
    => /\ last.result.kind = "Err"
       /\ last.chatCalls = 0

\* C8: a chat completion reply without choices makes prompt return an error; a
\* reply whose first choice has text makes prompt return that text.
C8_FirstChoiceOrError ==
    (last.op = "prompt" /\ last.chatReply.kind = "Some" /\ last.chatReply.value.kind = "Ok")
    => LET choices == last.chatReply.value.value
       IN /\ choices = <<>> => last.result.kind = "Err"
          /\ (choices # <<>> /\ choices[1].kind = "Some")
                => last.result = Ok(choices[1].value)

---------------------------------------------------------------------------
(* Properties of File::new *)

\* the text read and the File built from it by the last File::new
Loaded == loaded.kind = "Some" /\ loaded.value.kind = "Ok"
LoadedText == read.value.value
LoadedRows == loaded.value.value.rows

\* the places of the line feeds of a text, in order
LineFeeds(text) == {i \in 1..Len(text) : text[i] = LF}
NthLineFeed(text, n) ==
    CHOOSE i \in LineFeeds(text) : Cardinality({j \in LineFeeds(text) : j < i}) = n - 1

\* the n-th line of a text: what stands between the line feed before it and
\* its own line feed less a CR right before that, or the end of the text
NthLine(text, n) ==
    LET from == IF n = 1 THEN 1 ELSE NthLineFeed(text, n - 1) + 1
    IN IF n <= Cardinality(LineFeeds(text))
       THEN LET to == NthLineFeed(text, n) - 1
            IN IF to >= from /\ text[to] = CR THEN SubSeq(text, from, to - 1)
               ELSE SubSeq(text, from, to)
       ELSE SubSeq(text, from, Len(text))

\* a text has one line per line feed, and one more when text follows the last
LineCount(text) ==
    Cardinality(LineFeeds(text))
        + (IF text # <<>> /\ text[Len(text)] # LF THEN 1 ELSE 0)

\* the rows of a File are the lines of the text read, in order
RowsAreLines ==
    /\ loaded.value.value.contents = LoadedText
    /\ Len(LoadedRows) = LineCount(LoadedText)
    /\ \A n \in 1..Len(LoadedRows) : LoadedRows[n] = NthLine(LoadedText, n)
    /\ LoadedText = <<>> => LoadedRows = <<>>

\* C10 as stated: the rows of a File are the lines of the text read, in order,
\* none added for a final line feed, and every row is a non-empty string.
C10_RowsNonEmpty ==
    Loaded => (RowsAreLines /\ \A n \in 1..Len(LoadedRows) : LoadedRows[n] # <<>>)

\* C10 amended: the rows of a File are the lines of the text read, in order,
\* none added for a final line feed; a row holds no line feed, and the row of
\* a blank line is the empty string.
C10_RowsAreLines ==
    Loaded => /\ RowsAreLines
              /\ \A n \in 1..Len(LoadedRows) : LF \notin Range(LoadedRows[n])

\* a text with a blank line in the middle and a final line feed
C10_Witness ==
    /\ Loaded
    /\ LoadedText = <<"a", LF, LF, "a", LF>>
    /\ LoadedRows = <<<<"a">>, <<>>, <<"a">>>>

====
